---- MODULE Spec2Model ----
(***************************************************************************)
(* A model of openhdemg.library.muap.  Each function is a state machine of *)
(* its own, from the moment its arguments are bound to the moment it       *)
(* returns or an error leaves it:                                          *)
(*   Spec       tracking                                                   *)
(*   SpecDup    remove_duplicates_between (which calls tracking)           *)
(*   SpecAlign  align_by_xcorr                                             *)
(*   SpecSta    sta                                                        *)
(*   SpecGrid   diff and double_diff                                       *)
(*   SpecCv     estimate_cv_via_mle and MUcv_gui.compute_cv                *)
(* The variables of the functions a specification does not run keep their  *)
(* idle values.                                                            *)
(*                                                                         *)
(* The 2d cross-correlation (mathtools.norm_twod_xcorr) and the electrode  *)
(* sorting (electrodes.sort_rawemg) are not part of the modelled files:    *)
(* the outcome of comparing MU i of file 1 with MU j of file 2 is the      *)
(* oracle xcc[<<i, j>>], fixed when the templates come into existence.     *)
(* XCC values are levels 1..MaxXcc; a table is a sequence of rows; a       *)
(* template is a sequence (one entry per matrix column key) of frames, a   *)
(* frame being the sequence of its channels (label, all-NaN flag).         *)
(***************************************************************************)
EXTENDS Integers, Sequences, FiniteSets, TLC

\* ------------------------------------------------------------------ bounds
MaxMU == 2        \* MUs per file: 0..MaxMU
MaxPairs == 4     \* MU pairs compared in one call
MaxXcc == 3       \* XCC levels 1..MaxXcc
MaxCols == 2      \* matrix columns (keys of a template): 1..MaxCols
MaxRows == 3      \* matrix rows per column
MaxItems == 2     \* length of a custom_muaps list: 0..MaxItems

VARIABLES
    emgfile1,                \* [NUMBER_OF_MUS |-> n]
    emgfile2,
    matrix,                  \* geometry of the electrode grid
    derivation,
    custom_muaps,
    threshold,
    exclude_belowthreshold,
    filter,
    multiprocessing,
    pc,                      \* position of the call
    err,                     \* the exception that left the call, if any
    sta_emgfile1,            \* MU -> template, the objects the call compares
    sta_emgfile2,
    sta_created,             \* the two collections as they were created
    xcc,                     \* oracle: <<i, j>> -> outcome of the comparison
    jobs,                    \* parallel path: finished job -> its res
    unordered,               \* parallel path: a job finished before a lower one
    res,                     \* list of the per-MU result buffers
    tracking_res,            \* the table
    \* remove_duplicates_between
    which,
    mus_to_remove,           \* <<MUs to delete from file 1, from file 2>>
    heap,                    \* the emgfile objects; 1 and 2 are the caller's
    work,                    \* <<emgfile1, emgfile2>> of the call, as references
    returned,                \* the two files handed back, as references
    \* align_by_xcorr
    sta_mu1,                 \* [index |-> sample labels, frames |-> one per key]
    sta_mu2,
    finalduration,           \* the fraction [num |-> p, den |-> q]
    idxmax,                  \* normxcorr_df.idxmax(): one lag per column
    lag,                     \* the lag used for the shift, in half samples
    aligned_sta1,
    aligned_sta2,
    align_pc,
    \* sta
    MUPULSES,                \* per MU, the samples of its firings, ascending
    emg_samples,             \* samples of every channel of the recording
    timewindow,              \* in milliseconds
    FSAMP,                   \* in Hz
    sta_function,            \* "sta" or "st_muap"
    sta_warnings,            \* the MUs a warning was emitted for
    firings,                 \* <<first, last>>: the firings to average
    sta_dict,                \* the templates of the MUs done so far
    sta_pc,
    \* diff and double_diff
    rawemg,                  \* the grid handed to diff or double_diff
    differential,            \* "sd" for diff, "dd" for double_diff
    derived,                 \* the grid handed back
    grid_pc,
    \* estimate_cv_via_mle and MUcv_gui.compute_cv
    signal,                  \* [rows |-> samples, padded |-> per channel, NaN-padded]
    via_gui,                 \* called from MUcv_gui.compute_cv
    pair,                    \* rows of sig handed to find_mle_teta
    mle_cv,                  \* the velocity mle_cv_est hands back
    cv,
    cv_err,
    cv_pc,
    \* Tracking_gui
    gui,
    inclusion,               \* the Inclusion column: [present |-> BOOLEAN, flags |-> per row]
    selected,                \* the pair selected in the GUI
    toggled,                 \* per row: include_exclude ran an odd number of times
    \* EMGFileSectionsIterator
    it_file,                 \* self.file
    split_points,
    sections,
    results,
    it_pc                    \* how the last call on the iterator ended

dup_vars == <<which, mus_to_remove, heap, work, returned>>

align_vars == <<sta_mu1, sta_mu2, finalduration, idxmax, lag, aligned_sta1,
                aligned_sta2, align_pc>>

sta_vars == <<MUPULSES, emg_samples, timewindow, FSAMP, sta_function,
              sta_warnings, firings, sta_dict, sta_pc>>

grid_vars == <<rawemg, differential, derived, grid_pc>>

cv_vars == <<signal, via_gui, pair, mle_cv, cv, cv_err, cv_pc>>

gui_vars == <<gui, inclusion, selected, toggled>>

it_vars == <<it_file, split_points, sections, results, it_pc>>

outside_tracking == <<dup_vars, align_vars, sta_vars, grid_vars, cv_vars, gui_vars, it_vars>>

tracking_vars == <<emgfile1, emgfile2, matrix, derivation, custom_muaps, threshold,
          exclude_belowthreshold, filter, multiprocessing, pc, err,
          sta_emgfile1, sta_emgfile2, sta_created, xcc, jobs, unordered,
          res, tracking_res>>

vars == <<tracking_vars, outside_tracking>>

outside_dup == <<align_vars, sta_vars, grid_vars, cv_vars, gui_vars, it_vars>>

outside_align == <<tracking_vars, dup_vars, sta_vars, grid_vars, cv_vars, gui_vars, it_vars>>

outside_sta == <<tracking_vars, dup_vars, align_vars, grid_vars, cv_vars, gui_vars, it_vars>>

outside_grid == <<tracking_vars, dup_vars, align_vars, sta_vars, cv_vars, gui_vars, it_vars>>

outside_cv == <<tracking_vars, dup_vars, align_vars, sta_vars, grid_vars, gui_vars, it_vars>>

inputs == <<emgfile1, emgfile2, matrix, derivation, custom_muaps, threshold,
            exclude_belowthreshold, filter, multiprocessing>>

\* ------------------------------------------------------------- input sets
Derivations == {"mono", "sd", "dd", "xx"}

\* The threshold is the second XCC level: a level below it, the level itself
\* and the levels above it all occur as XCC values.
Thresholds == {2}

RECURSIVE SeqsUpTo(_, _)
SeqsUpTo(S, n) ==
    IF n = 0 THEN {<<>>}
    ELSE LET shorter == SeqsUpTo(S, n - 1)
         IN shorter \cup {Append(s, x) : s \in shorter, x \in S}

\* What a caller can pass as custom_muaps: None, a list of dictionaries and
\* other objects, or a single dictionary that is not wrapped in a list.
CustomInputs ==
    {[type |-> "NoneType", items |-> <<>>], [type |-> "dict", items |-> <<>>]}
    \cup {[type |-> "list", items |-> s] : s \in SeqsUpTo({"dict", "other"}, MaxItems)}

Outcomes ==
    {[raises |-> FALSE, XCC |-> v] : v \in 1..MaxXcc}
    \cup {[raises |-> TRUE, XCC |-> 1]}

NoTemplates == [mu \in {} |-> <<>>]

NoXcc == [p \in {} |-> [raises |-> FALSE, XCC |-> 1]]

NoJobs == [i \in {} |-> <<>>]

\* ------------------------------------------------- grid and its templates
\* The grid sort_rawemg hands over: matrix.ncols columns of MaxRows channels
\* numbered through the grid (column c holds the labels (c-1)*MaxRows ..
\* c*MaxRows-1); with matrix.emptych the first channel of the first column is
\* the empty (all-NaN) channel, as in the GR08MM1305 layout.
\* The signal of channel r of a column of nrows channels, as the weights
\* with which the recorded channels of the column enter it.
recorded(nrows, r) == [q \in 1..nrows |-> IF q = r THEN 1 ELSE 0]

sort_rawemg(m) ==
    [c \in 1..m.ncols |->
        [r \in 1..MaxRows |-> [lab |-> (c - 1) * MaxRows + r - 1,
                               nan |-> (m.emptych /\ c = 1 /\ r = 1),
                               val |-> recorded(MaxRows, r)]]]

\* Lines 112-114: loc[:, row - 1] - loc[:, row]
first_difference(upper, this) == [q \in DOMAIN this |-> upper[q] - this[q]]

\* The second difference without the change of sign.
second_difference_plain(upmost, upper, this) ==
    [q \in DOMAIN this |-> upmost[q] - 2 * upper[q] + this[q]]

\* Lines 203-207: -loc[:, row - 2] + 2 * loc[:, row - 1] - loc[:, row]
second_difference(upmost, upper, this) ==
    [q \in DOMAIN this |-> 2 * upper[q] - upmost[q] - this[q]]

\* diff with the result stored under the label of the upper row.
diff_upper(sorted_rawemg) ==
    [c \in 1..Len(sorted_rawemg) |->
        [p \in 1..(Len(sorted_rawemg[c]) - 1) |->
            [lab |-> sorted_rawemg[c][p].lab,
             nan |-> sorted_rawemg[c][p].nan \/ sorted_rawemg[c][p + 1].nan,
             val |-> first_difference(sorted_rawemg[c][p].val,
                                      sorted_rawemg[c][p + 1].val)]]]

diff(sorted_rawemg) ==
    [c \in 1..Len(sorted_rawemg) |->
        [p \in 1..(Len(sorted_rawemg[c]) - 1) |->
            [lab |-> sorted_rawemg[c][p + 1].lab,
             nan |-> sorted_rawemg[c][p].nan \/ sorted_rawemg[c][p + 1].nan,
             val |-> first_difference(sorted_rawemg[c][p].val,
                                      sorted_rawemg[c][p + 1].val)]]]

\* double_diff with the columns handed back in reverse order.
double_diff_reversed(sorted_rawemg) ==
    [c \in 1..Len(sorted_rawemg) |->
        [p \in 1..(Len(sorted_rawemg[Len(sorted_rawemg) + 1 - c]) - 2) |->
            [lab |-> sorted_rawemg[Len(sorted_rawemg) + 1 - c][p + 2].lab,
             nan |-> FALSE,
             val |-> sorted_rawemg[Len(sorted_rawemg) + 1 - c][p + 2].val]]]

double_diff(sorted_rawemg) ==
    [c \in 1..Len(sorted_rawemg) |->
        [p \in 1..(Len(sorted_rawemg[c]) - 2) |->
            [lab |-> sorted_rawemg[c][p + 2].lab,
             nan |-> sorted_rawemg[c][p].nan \/ sorted_rawemg[c][p + 1].nan
                        \/ sorted_rawemg[c][p + 2].nan,
             val |-> second_difference(sorted_rawemg[c][p].val,
                                       sorted_rawemg[c][p + 1].val,
                                       sorted_rawemg[c][p + 2].val)]]]

\* One template per MU, one frame per column, one frame column per channel;
\* an all-NaN channel gives an all-NaN template column.
sta(emgfile, sorted_rawemg) ==
    [mu \in 0..(emgfile.NUMBER_OF_MUS - 1) |-> sorted_rawemg]

dropna(df) == SelectSeq(df, LAMBDA ch : ~ch.nan)

RECURSIVE merge_all(_)
merge_all(dfs) ==
    IF Len(dfs) = 1 THEN dfs[1]
    ELSE merge_all(SubSeq(dfs, 1, Len(dfs) - 1)) \o dfs[Len(dfs)]

\* unpack_sta: reduce(pd.merge, dfs).  With a single key, reduce returns the
\* only frame of the template itself, not a new frame.
unpack_sta(sta_mu) ==
    [df |-> merge_all(sta_mu), same_object |-> (Len(sta_mu) = 1)]

\* pack_sta with every frame starting one column late.
pack_sta_late(df_sta, nkeys) ==
    LET slice == (Len(df_sta) + nkeys - 1) \div nkeys
        upto(n) == IF n < Len(df_sta) THEN n ELSE Len(df_sta)
    IN [p \in 1..nkeys |-> SubSeq(df_sta, upto(slice * (p - 1)) + 2, upto(slice * p))]

\* pack_sta: the frame cut back into len(keys) frames of `slice` columns.
pack_sta(df_sta, nkeys) ==
    LET slice == (Len(df_sta) + nkeys - 1) \div nkeys
        upto(n) == IF n < Len(df_sta) THEN n ELSE Len(df_sta)
    IN [p \in 1..nkeys |-> SubSeq(df_sta, upto(slice * (p - 1)) + 1, upto(slice * p))]

\* align_by_xcorr, as far as the frames it hands back are concerned: new
\* frames with the channels of the input (the time axis is not modelled).
align_by_xcorr(sta_mu) == pack_sta(unpack_sta(sta_mu).df, Len(sta_mu))

\* ---------------------------------------------------- the comparison task
isinstance_list(x) == x.type = "list"

N1 == emgfile1.NUMBER_OF_MUS

N2 == emgfile2.NUMBER_OF_MUS

Pairs == (0..(N1 - 1)) \X (0..(N2 - 1))

\* The stored template sta_mu after lines 1058-1072 have run on it.  Custom
\* MUAPs are compared as they are: df is unpack_sta of the stored template,
\* and df.dropna(axis=1, inplace=True) then works on the stored frame when
\* unpack_sta handed back that very frame.  Computed STAs are aligned first,
\* and the frames that lose their NaN columns are those of the aligned copy.
after_compare(sta_mu) ==
    LET aligned == IF isinstance_list(custom_muaps) THEN sta_mu ELSE align_by_xcorr(sta_mu)
        stored == isinstance_list(custom_muaps) /\ unpack_sta(aligned).same_object
    IN IF stored THEN <<dropna(unpack_sta(aligned).df)>> ELSE sta_mu

\* Lines 1077-1086.
RetainedStrict(normxcorr_max) ==
    \/ exclude_belowthreshold = FALSE
    \/ exclude_belowthreshold /\ normxcorr_max > threshold

Retained(normxcorr_max) ==
    \/ exclude_belowthreshold = FALSE
    \/ exclude_belowthreshold /\ normxcorr_max >= threshold

\* An exception of align_by_xcorr or norm_twod_xcorr leaves parallel().
TaskNeverRaises(mu_file1) == FALSE

TaskRaises(mu_file1) == \E j \in 0..(N2 - 1) : xcc[<<mu_file1, j>>].raises

\* MUs of file 2 whose comparison with mu_file1 is started.
Compared(mu_file1) ==
    {j \in 0..(N2 - 1) : \A k \in 0..(j - 1) : ~xcc[<<mu_file1, k>>].raises}

\* The res dict parallel(mu_file1) returns, as a list of rows.
parallel(mu_file1) ==
    LET all == [k \in 1..N2 |->
                   [MU_file1 |-> mu_file1, MU_file2 |-> k - 1,
                    XCC |-> xcc[<<mu_file1, k - 1>>].XCC]]
    IN SelectSeq(all, LAMBDA r : Retained(r.XCC))

\* The templates after parallel(mu_file1) ran in the process that owns them.
Touched1(mu_file1) ==
    [mu \in DOMAIN sta_emgfile1 |->
        IF mu = mu_file1 /\ Compared(mu_file1) # {}
        THEN after_compare(sta_emgfile1[mu]) ELSE sta_emgfile1[mu]]

Touched2(mu_file1) ==
    [mu \in DOMAIN sta_emgfile2 |->
        IF mu \in Compared(mu_file1)
        THEN after_compare(sta_emgfile2[mu]) ELSE sta_emgfile2[mu]]

\* ------------------------------------------------------------------- Init
\* No call of remove_duplicates_between is under way.
DupIdle ==
    /\ which = "munumber"
    /\ mus_to_remove = <<<<>>, <<>>>>
    /\ heap = <<>>
    /\ work = <<0, 0>>
    /\ returned = <<0, 0>>

NoSta == [index |-> <<>>, frames |-> <<>>]

\* No call of align_by_xcorr is under way.
AlignIdle ==
    /\ sta_mu1 = NoSta
    /\ sta_mu2 = NoSta
    /\ finalduration = [num |-> 1, den |-> 2]
    /\ idxmax = <<>>
    /\ lag = 0
    /\ aligned_sta1 = NoSta
    /\ aligned_sta2 = NoSta
    /\ align_pc = "idle"

\* No call of sta is under way.
StaIdle ==
    /\ MUPULSES = <<>>
    /\ emg_samples = 0
    /\ timewindow = 0
    /\ FSAMP = 0
    /\ sta_function = "sta"
    /\ sta_warnings = <<>>
    /\ firings = <<0, 0>>
    /\ sta_dict = <<>>
    /\ sta_pc = "idle"

\* No call of diff or double_diff is under way.
GridIdle ==
    /\ rawemg = <<>>
    /\ differential = "sd"
    /\ derived = <<>>
    /\ grid_pc = "idle"

\* No call of estimate_cv_via_mle is under way.
CvIdle ==
    /\ signal = [rows |-> 0, padded |-> <<>>]
    /\ via_gui = FALSE
    /\ pair = <<>>
    /\ mle_cv = 0
    /\ cv = 0
    /\ cv_err = "none"
    /\ cv_pc = "idle"

NoInclusion == [present |-> FALSE, flags |-> <<>>]

\* No Tracking_gui is open; gui is the argument of tracking.
NoFile == [EMG_LENGTH |-> 0, NUMBER_OF_MUS |-> 0, MUPULSES |-> <<>>,
           BINARY_MUS_FIRING |-> <<>>, IPTS |-> "empty"]

ItIdle ==
    /\ it_file = NoFile
    /\ split_points = <<>>
    /\ sections = <<>>
    /\ results = <<>>
    /\ it_pc = "idle"

GuiClosed ==
    /\ inclusion = NoInclusion
    /\ selected = 0
    /\ toggled = <<>>

Init ==
    /\ emgfile1 \in {[NUMBER_OF_MUS |-> n] : n \in 0..MaxMU}
    /\ emgfile2 \in {[NUMBER_OF_MUS |-> n] : n \in 0..MaxMU}
    /\ N1 * N2 <= MaxPairs
    /\ matrix \in {[ncols |-> c, emptych |-> e] : c \in 1..MaxCols, e \in BOOLEAN}
    /\ derivation \in Derivations
    /\ custom_muaps \in CustomInputs
    /\ threshold \in Thresholds
    /\ exclude_belowthreshold \in BOOLEAN
    /\ filter \in BOOLEAN
    /\ multiprocessing \in BOOLEAN
    /\ pc = "start"
    /\ err = "none"
    /\ sta_emgfile1 = NoTemplates
    /\ sta_emgfile2 = NoTemplates
    /\ sta_created = <<NoTemplates, NoTemplates>>
    /\ xcc = NoXcc
    /\ jobs = NoJobs
    /\ unordered = FALSE
    /\ res = <<>>
    /\ tracking_res = <<>>
    /\ DupIdle
    /\ AlignIdle
    /\ StaIdle
    /\ GridIdle
    /\ CvIdle
    /\ ItIdle
    /\ gui = FALSE
    /\ GuiClosed

Raise(e) ==
    /\ pc' = "error"
    /\ err' = e

\* ------------------------------------------------- obtaining the templates
DerivationAny(d) == TRUE

DerivationKnown(d) == d \in {"mono", "sd", "dd"}

Derive(sorted_rawemg) ==
    CASE derivation = "sd" -> diff(sorted_rawemg)
      [] derivation = "dd" -> double_diff(sorted_rawemg)
      [] OTHER -> sorted_rawemg

\* The dictionaries a caller passes as custom MUAPs are structured as the
\* output of sta on the sorted grid.
muaps_of(emgfile) == sta(emgfile, sort_rawemg(matrix))

StartComparison(t1, t2) ==
    /\ sta_emgfile1' = t1
    /\ sta_emgfile2' = t2
    /\ sta_created' = <<t1, t2>>
    /\ xcc' \in [Pairs -> Outcomes]
    /\ pc' = "compare"
    /\ err' = err

\* Lines 989-1034.
ObtainSTAs ==
    /\ pc = "start"
    /\ ~isinstance_list(custom_muaps)
    /\ IF DerivationKnown(derivation)
       THEN StartComparison(sta(emgfile1, Derive(sort_rawemg(matrix))),
                            sta(emgfile2, Derive(sort_rawemg(matrix))))
       ELSE /\ Raise("ValueError")
            /\ UNCHANGED <<sta_emgfile1, sta_emgfile2, sta_created, xcc>>
    /\ UNCHANGED <<outside_tracking, inputs, jobs, unordered, res, tracking_res>>

\* Lines 1037-1046.
ObtainCustomMuaps ==
    /\ pc = "start"
    /\ isinstance_list(custom_muaps)
    /\ IF /\ Len(custom_muaps.items) = 2
          /\ custom_muaps.items[1] = "dict"
          /\ custom_muaps.items[2] = "dict"
       THEN StartComparison(muaps_of(emgfile1), muaps_of(emgfile2))
       ELSE /\ Raise("ValueError")
            /\ UNCHANGED <<sta_emgfile1, sta_emgfile2, sta_created, xcc>>
    /\ UNCHANGED <<outside_tracking, inputs, jobs, unordered, res, tracking_res>>

\* ------------------------------------------------------ comparison phase
\* Lines 1101-1103: the next MU of file 1, in order.
SerialTask ==
    /\ pc = "compare"
    /\ ~multiprocessing
    /\ Len(res) < N1
    /\ LET mu_file1 == Len(res)
       IN /\ sta_emgfile1' = Touched1(mu_file1)
          /\ sta_emgfile2' = Touched2(mu_file1)
          /\ IF TaskRaises(mu_file1)
             THEN Raise("ComputationError") /\ res' = res
             ELSE /\ res' = Append(res, parallel(mu_file1))
                  /\ UNCHANGED <<pc, err>>
    /\ UNCHANGED <<outside_tracking, inputs, sta_created, xcc, jobs, unordered, tracking_res>>

\* Line 1093: the jobs handed to the worker pool.
JobsSkipFirst == 1..(N1 - 1)

ParallelJobs == 0..(N1 - 1)

\* One job of the pool, in any order.  The pool runs a job in a worker
\* process, on copies of the templates, or (one cpu, threading backend) in
\* the calling process on the templates themselves.
ParallelTask(mu_file1) ==
    /\ pc = "compare"
    /\ multiprocessing
    /\ mu_file1 \in ParallelJobs \ DOMAIN jobs
    /\ \E inprocess \in BOOLEAN :
          IF inprocess
          THEN /\ sta_emgfile1' = Touched1(mu_file1)
               /\ sta_emgfile2' = Touched2(mu_file1)
          ELSE UNCHANGED <<sta_emgfile1, sta_emgfile2>>
    /\ IF TaskRaises(mu_file1)
       THEN Raise("ComputationError") /\ UNCHANGED <<jobs, unordered>>
       ELSE /\ jobs' = [i \in DOMAIN jobs \cup {mu_file1} |->
                           IF i = mu_file1 THEN parallel(mu_file1) ELSE jobs[i]]
            /\ unordered' = (unordered \/ \E i \in ParallelJobs \ DOMAIN jobs : i < mu_file1)
            /\ UNCHANGED <<pc, err>>
    /\ UNCHANGED <<outside_tracking, inputs, sta_created, xcc, res, tracking_res>>

\* Line 1092: Parallel(...)(...) returns the results in the order of the jobs.
ParallelJoin ==
    /\ pc = "compare"
    /\ multiprocessing
    /\ DOMAIN jobs = ParallelJobs
    /\ res' = [k \in 1..Cardinality(ParallelJobs) |->
                 jobs[CHOOSE i \in ParallelJobs :
                        Cardinality({m \in ParallelJobs : m < i}) = k - 1]]
    /\ pc' = "joined"
    /\ UNCHANGED <<outside_tracking, inputs, err, sta_emgfile1, sta_emgfile2, sta_created, xcc,
                   jobs, unordered, tracking_res>>

\* ------------------------------------------------------------ the table
\* Lines 1113-1122, one round of the loop for pos > 0.
concat_step(table, new_tracking_res) ==
    LET first == IF Len(table) = 0 /\ Len(new_tracking_res) # 0
                 THEN new_tracking_res ELSE table
    IN IF Len(first) # 0 /\ Len(new_tracking_res) # 0
       THEN first \o new_tracking_res ELSE first

RECURSIVE concat_res(_)
concat_res(r) ==
    IF Len(r) = 1 THEN r[1]
    ELSE concat_step(concat_res(SubSeq(r, 1, Len(r) - 1)), r[Len(r)])

\* by=["MU_file1", "XCC"], ascending=False
MU1DescXCCAsc(a, b) ==
    \/ a.MU_file1 > b.MU_file1
    \/ a.MU_file1 = b.MU_file1 /\ a.XCC < b.XCC

MU1DescXCCDesc(a, b) ==
    \/ a.MU_file1 > b.MU_file1
    \/ a.MU_file1 = b.MU_file1 /\ a.XCC > b.XCC

\* by=["MU_file2", "XCC"], ascending=False
MU2DescXCCDesc(a, b) ==
    \/ a.MU_file2 > b.MU_file2
    \/ a.MU_file2 = b.MU_file2 /\ a.XCC > b.XCC

\* by=["MU_file1"]
MU1Asc(a, b) == a.MU_file1 < b.MU_file1

\* by=["MU_file1", "XCC"], ascending=[True, False]
MU1AscXCCDesc(a, b) ==
    \/ a.MU_file1 < b.MU_file1
    \/ a.MU_file1 = b.MU_file1 /\ a.XCC > b.XCC

\* Row a sorts before row b under the ordering of the call named by.
before(by, a, b) ==
    CASE by = "file1_desc" -> MU1DescXCCDesc(a, b)
      [] by = "file2_desc" -> MU2DescXCCDesc(a, b)
      [] by = "file1" -> MU1Asc(a, b)
      [] by = "file1_xcc_desc" -> MU1AscXCCDesc(a, b)

\* DataFrame.sort_values: rows that compare equal keep their order (the keys
\* of the single-key sort at line 1153 are unique).
sort_values(table, by) ==
    LET n == Len(table)
        rank(k) == Cardinality({m \in 1..n :
                       \/ before(by, table[m], table[k])
                       \/ ~before(by, table[k], table[m]) /\ m < k})
    IN [pos \in 1..n |-> table[CHOOSE k \in 1..n : rank(k) = pos - 1]]

\* for pos, mu in enumerate(unique): res_unique.loc[pos, :] = this_res.iloc[0, :]
first_of_each(table, column) ==
    LET idx == {k \in 1..Len(table) :
                   \A m \in 1..(k - 1) : table[m][column] # table[k][column]}
    IN [pos \in 1..Cardinality(idx) |->
           table[CHOOSE k \in idx : Cardinality({m \in idx : m < k}) = pos - 1]]

\* Lines 1128-1141.
filter_file1(table) == first_of_each(sort_values(table, "file1_desc"), "MU_file1")

\* Lines 1144-1151.
filter_file2_skipped(table) == table

filter_file2(table) == first_of_each(sort_values(table, "file2_desc"), "MU_file2")

\* Lines 1112-1123.
ConvertRes ==
    /\ \/ pc = "joined"
       \/ pc = "compare" /\ ~multiprocessing /\ Len(res) = N1
    /\ IF Len(res) = 0
       THEN Raise("UnboundLocalError") /\ tracking_res' = tracking_res
       ELSE /\ tracking_res' = concat_res(res)
            /\ pc' = "converted"
            /\ err' = err
    /\ UNCHANGED <<outside_tracking, inputs, sta_emgfile1, sta_emgfile2, sta_created, xcc, jobs,
                   unordered, res>>

\* Lines 1126-1153.
FilterRes ==
    /\ pc = "converted"
    /\ filter
    /\ tracking_res' = sort_values(filter_file2(filter_file1(tracking_res)), "file1")
    /\ pc' = "sorted"
    /\ UNCHANGED <<outside_tracking, inputs, err, sta_emgfile1, sta_emgfile2, sta_created, xcc,
                   jobs, unordered, res>>

\* Lines 1155-1159.
SortRes ==
    /\ pc = "converted"
    /\ ~filter
    /\ tracking_res' = sort_values(tracking_res, "file1_xcc_desc")
    /\ pc' = "sorted"
    /\ UNCHANGED <<outside_tracking, inputs, err, sta_emgfile1, sta_emgfile2, sta_created, xcc,
                   jobs, unordered, res>>

\* Lines 1161-1219: the rows keep their order and get the index 0..n-1.
\* With gui=True and a table that is not empty, Tracking_gui is opened on the
\* table (lines 1330-1331: every row 'Included').
Return ==
    /\ pc = "sorted"
    /\ IF gui /\ Len(tracking_res) > 0
       THEN /\ pc' = "gui"
            /\ inclusion' = [present |-> TRUE,
                             flags |-> [k \in DOMAIN tracking_res |-> "Included"]]
            /\ selected' = 0
            /\ toggled' = [k \in DOMAIN tracking_res |-> FALSE]
       ELSE /\ pc' = "returned"
            /\ UNCHANGED <<inclusion, selected, toggled>>
    /\ UNCHANGED <<dup_vars, align_vars, sta_vars, grid_vars, cv_vars, it_vars, gui, inputs,
                   err, sta_emgfile1, sta_emgfile2, sta_created, xcc, jobs,
                   unordered, res, tracking_res>>

\* The user selects a pair in the GUI.
SelectPair ==
    /\ pc = "gui"
    /\ \E p \in 0..(Len(tracking_res) - 1) :
          /\ p # selected
          /\ selected' = p
    /\ UNCHANGED <<tracking_vars, dup_vars, align_vars, sta_vars, grid_vars,
                   cv_vars, it_vars, gui, inclusion, toggled>>

\* include_exclude that never includes a pair again.
flip_once(flag) == "Excluded"

\* Lines 1587-1598.
flip(flag) == IF flag = "Included" THEN "Excluded" ELSE "Included"

\* Tracking_gui.include_exclude, lines 1583-1608.
IncludeExclude ==
    /\ pc = "gui"
    /\ inclusion' = [inclusion EXCEPT !.flags[selected + 1] = flip(@)]
    /\ toggled' = [toggled EXCEPT ![selected + 1] = ~@]
    /\ UNCHANGED <<tracking_vars, dup_vars, align_vars, sta_vars, grid_vars,
                   cv_vars, it_vars, gui, selected>>

\* The window is closed and get_results hands back the table (1615-1618,
\* 1216).
GetResults ==
    /\ pc = "gui"
    /\ pc' = "returned"
    /\ selected' = 0
    /\ UNCHANGED <<dup_vars, align_vars, sta_vars, grid_vars, cv_vars, it_vars, gui,
                   inclusion, toggled, inputs, err, sta_emgfile1, sta_emgfile2,
                   sta_created, xcc, jobs, unordered, res, tracking_res>>

Next ==
    \/ ObtainSTAs
    \/ ObtainCustomMuaps
    \/ SerialTask
    \/ \E mu_file1 \in 0..MaxMU : ParallelTask(mu_file1)
    \/ ParallelJoin
    \/ ConvertRes
    \/ FilterRes
    \/ SortRes
    \/ Return

Spec == Init /\ [][Next]_vars

\* ---------------------------------------------------------------- claims
Rows(table) == {table[k] : k \in DOMAIN table}

AnyRaises == \E p \in DOMAIN xcc : xcc[p].raises

Clears(x) == ~exclude_belowthreshold \/ x >= threshold

RowOf(p) == [MU_file1 |-> p[1], MU_file2 |-> p[2], XCC |-> xcc[p].XCC]

\* The pairs that clear the threshold phase.
Candidates == {RowOf(p) : p \in {q \in DOMAIN xcc : Clears(xcc[q].XCC)}}

\* The result buffers of the tasks that have finished, by MU of file 1.
Buffers ==
    IF multiprocessing THEN jobs ELSE [i \in 0..(Len(res) - 1) |-> res[i + 1]]

\* C1: with filter=True the table has no MU_file1 twice and no MU_file2 twice.
C1_MatchingUnique ==
    (filter /\ pc \in {"sorted", "returned"}) =>
        \A a, b \in DOMAIN tracking_res :
            a # b => /\ tracking_res[a].MU_file1 # tracking_res[b].MU_file1
                     /\ tracking_res[a].MU_file2 # tracking_res[b].MU_file2

C1_Witness ==
    /\ pc = "returned"
    /\ filter
    /\ Len(tracking_res) >= 1
    /\ \E c, d \in Candidates : c # d /\ c.MU_file1 = d.MU_file1
    /\ \E c, d \in Candidates : c # d /\ c.MU_file2 = d.MU_file2

\* C2: the serial and the parallel path end the same way on the same inputs,
\* whatever the order the jobs finish in: both end as the tasks run one after
\* the other do, and a returned table has the rows of that run.
SerialRes == [k \in 1..N1 |-> parallel(k - 1)]

SerialTable ==
    LET table == concat_res(SerialRes)
    IN IF filter
       THEN sort_values(filter_file2(filter_file1(table)), "file1")
       ELSE sort_values(table, "file1_xcc_desc")

SerialOutcome ==
    IF AnyRaises THEN "ComputationError"
    ELSE IF N1 = 0 THEN "UnboundLocalError" ELSE "returned"

C2_ParallelSerialEquivalent ==
    /\ (pc = "error" /\ err # "ValueError") => err = SerialOutcome
    /\ pc = "returned" =>
          /\ SerialOutcome = "returned"
          /\ Rows(tracking_res) = Rows(SerialTable)

C2_Witness ==
    /\ pc = "returned"
    /\ multiprocessing
    /\ unordered
    /\ Len(tracking_res) >= 2

\* C3: with filter=False the returned table has exactly one row for every
\* pair that clears the threshold, and no other row.
C3_OneRowPerCandidate ==
    (pc = "returned" /\ ~filter) =>
        /\ Rows(tracking_res) \subseteq Candidates
        /\ \A c \in Candidates :
              Cardinality({k \in DOMAIN tracking_res : tracking_res[k] = c}) = 1

\* C4: the buffer of a finished task holds the row of pair (i, j) if and only
\* if exclude_belowthreshold is false or xcc >= threshold, and nothing else.
C4_ThresholdPhase ==
    \A i \in DOMAIN Buffers :
        /\ Rows(Buffers[i]) \subseteq {RowOf(<<i, j>>) : j \in 0..(N2 - 1)}
        /\ \A j \in 0..(N2 - 1) :
              (RowOf(<<i, j>>) \in Rows(Buffers[i]))
                  <=> (~exclude_belowthreshold \/ xcc[<<i, j>>].XCC >= threshold)

C4_Witness ==
    /\ exclude_belowthreshold
    /\ \E i \in DOMAIN Buffers :
          /\ \E r \in Rows(Buffers[i]) : r.XCC = threshold
          /\ \E j \in 0..(N2 - 1) : RowOf(<<i, j>>) \notin Rows(Buffers[i])

\* C5: with filter=True the table is what the two passes leave: one row of
\* maximum XCC per MU_file1 of the candidates, then of these one row of
\* maximum XCC per MU_file2, ordered by MU_file1 ascending.
BestPerKey(S, A, column) ==
    /\ A \subseteq S
    /\ \A r \in S : Cardinality({a \in A : a[column] = r[column]}) = 1
    /\ \A a \in A : \A r \in S : r[column] = a[column] => r.XCC <= a.XCC

C5_TwoPassGreedy ==
    (pc = "returned" /\ filter) =>
        /\ \E A \in SUBSET Candidates :
              /\ BestPerKey(Candidates, A, "MU_file1")
              /\ BestPerKey(A, Rows(tracking_res), "MU_file2")
        /\ \A a, b \in DOMAIN tracking_res :
              a < b => tracking_res[a].MU_file1 < tracking_res[b].MU_file1

\* A MU of file 1 loses its best partner to a better pair and is dropped,
\* although its second choice stays unmatched.
C5_Witness ==
    /\ pc = "returned"
    /\ filter
    /\ \E c, d \in Candidates :
          /\ c.MU_file1 = d.MU_file1
          /\ c.XCC > d.XCC
          /\ \A r \in Rows(tracking_res) :
                r.MU_file1 # c.MU_file1 /\ r.MU_file2 # d.MU_file2
          /\ \E r \in Rows(tracking_res) : r.MU_file2 = c.MU_file2 /\ r.XCC >= c.XCC

\* C6: after the call every template is as it was created.
C6_TemplatesUnchanged ==
    pc = "returned" =>
        /\ sta_emgfile1 = sta_created[1]
        /\ sta_emgfile2 = sta_created[2]

\* C7: when the comparisons are done and no pair clears the threshold, the
\* call returns an empty table and raises no error.
C7_EmptyResultIsValid ==
    (/\ pc \in {"returned", "error"}
     /\ err # "ValueError"
     /\ ~AnyRaises
     /\ Candidates = {}) => (pc = "returned" /\ Len(tracking_res) = 0)

\* C8 as stated: an unknown derivation ends every call in a ValueError.
C8_UnknownDerivationAlwaysRaises ==
    (derivation \notin {"mono", "sd", "dd"} /\ pc # "start") =>
        (pc = "error" /\ err = "ValueError")

\* C8 as amended: an unknown derivation ends the call in a ValueError, with
\* no table, when custom_muaps is not a list.
C8_UnknownDerivationRaises ==
    (derivation \notin {"mono", "sd", "dd"} /\ custom_muaps.type # "list"
        /\ pc # "start") =>
            /\ pc = "error"
            /\ err = "ValueError"
            /\ Len(tracking_res) = 0
            /\ DOMAIN xcc = {}

C8_Witness ==
    /\ pc = "error"
    /\ err = "ValueError"
    /\ derivation \notin {"mono", "sd", "dd"}
    /\ custom_muaps.type = "dict"

\* C9: custom_muaps that is supplied and is not exactly two dictionaries ends
\* the call in a ValueError before any comparison.
C9_MalformedCustomMuapsRaises ==
    (/\ custom_muaps.type # "NoneType"
     /\ ~(custom_muaps.type = "list" /\ custom_muaps.items = <<"dict", "dict">>)
     /\ pc # "start") =>
        /\ pc = "error"
        /\ err = "ValueError"
        /\ DOMAIN xcc = {}
        /\ DOMAIN Buffers = {}

\* C10: when the comparison of some pair fails, the call never gets past the
\* comparison phase: it ends in that error, no table is built, and the task of
\* the failing pair hands over no buffer.
C10_FailureAborts ==
    AnyRaises =>
        /\ pc \in {"compare", "error"}
        /\ pc = "error" => err = "ComputationError"
        /\ Len(tracking_res) = 0
        /\ \A p \in DOMAIN xcc : xcc[p].raises => p[1] \notin DOMAIN Buffers

C10_Witness ==
    /\ pc = "error"
    /\ err = "ComputationError"
    /\ \E i \in DOMAIN Buffers : Len(Buffers[i]) >= 1

\* ------------------------------------------- remove_duplicates_between
\* One call of remove_duplicates_between: it calls tracking() on its files with
\* exclude_belowthreshold=True and then decides which MUs to delete.  The
\* table is the one tracking returns, reviewed in Tracking_gui with gui=True.
\* The comparison runs serially (multiprocessing=False).
Whichs == {"munumber", "accuracy", "other"}

AccuracyLevels == {1, 2}

column_of(table, column) == [k \in DOMAIN table |-> table[k][column]]

RECURSIVE by_accuracy(_, _)
\* Lines 1912-1921: the loop over the rows of the table.
by_accuracy(table, acc) ==
    IF Len(table) = 0 THEN <<<<>>, <<>>>>
    ELSE LET row == table[Len(table)]
             rest == by_accuracy(SubSeq(table, 1, Len(table) - 1), acc)
         IN  IF acc[1][row.MU_file1] <= acc[2][row.MU_file2]
             THEN <<Append(rest[1], row.MU_file1), rest[2]>>
             ELSE <<rest[1], Append(rest[2], row.MU_file2)>>

\* A file without MUs holds one column without a MU in IPTS and
\* BINARY_MUS_FIRING and one empty array in MUPULSES.
NoMU == -1

\* The fields of an emgfile that depend on its MUs, each as the list of the
\* MUs (numbered as in the file the caller passed) it holds data of.
file(n) ==
    LET mus == IF n = 0 THEN <<NoMU>> ELSE [k \in 1..n |-> k - 1]
    IN [NUMBER_OF_MUS |-> n, MUPULSES |-> mus, IPTS |-> mus,
        BINARY_MUS_FIRING |-> mus, ACCURACY |-> [k \in 1..n |-> k - 1]]

\* copy.deepcopy handing back the object it was given.
deepcopy_alias(h, ref) == [heap |-> h, ref |-> ref]

\* copy.deepcopy: a new object with the content of the object ref.
deepcopy(h, ref) == [heap |-> Append(h, h[ref]), ref |-> Len(h) + 1]

elements(list) == {list[k] : k \in DOMAIN list}

\* df.drop(munumber) followed by the renumbering: the entries at the labels
\* (positions from 0) not named in munumber.
drop(column, munumber) ==
    LET idx == {k \in DOMAIN column : (k - 1) \notin elements(munumber)}
    IN [pos \in 1..Cardinality(idx) |->
           column[CHOOSE k \in idx : Cardinality({m \in idx : m < k}) = pos - 1]]

\* tools.delete_mus(emgfile, munumber, if_single_mu="remove") with a list:
\* the new heap and the reference of del_emgfile.
delete_mus(h, ref, munumber) ==
    LET c == deepcopy(h, ref)
        emgfile == h[ref]
        number == c.heap[c.ref].NUMBER_OF_MUS - Len(munumber)
        dropped == [c.heap[c.ref] EXCEPT
                       !.ACCURACY = drop(@, munumber),
                       !.IPTS = drop(@, munumber),
                       !.BINARY_MUS_FIRING = drop(@, munumber),
                       !.MUPULSES = drop(SubSeq(emgfile.MUPULSES, 1,
                                                emgfile.NUMBER_OF_MUS), munumber),
                       !.NUMBER_OF_MUS = number]
        del_emgfile == IF number = 0
                       THEN [dropped EXCEPT !.IPTS = <<NoMU>>,
                                            !.BINARY_MUS_FIRING = <<NoMU>>,
                                            !.MUPULSES = <<NoMU>>]
                       ELSE dropped
    IN [heap |-> [c.heap EXCEPT ![c.ref] = del_emgfile], ref |-> c.ref]

\* custom_muaps of the calls followed here: None, two dictionaries, and one
\* dictionary only.
DupCustomInputs ==
    {[type |-> "NoneType", items |-> <<>>],
     [type |-> "list", items |-> <<"dict", "dict">>],
     [type |-> "list", items |-> <<"dict">>]}

InitDup ==
    /\ emgfile1 \in {[NUMBER_OF_MUS |-> n] : n \in 0..MaxMU}
    /\ emgfile2 \in {[NUMBER_OF_MUS |-> n] : n \in 0..MaxMU}
    /\ N1 * N2 <= MaxPairs
    /\ matrix = [ncols |-> 1, emptych |-> FALSE]
    /\ derivation \in {"sd", "xx"}
    /\ custom_muaps \in DupCustomInputs
    /\ threshold \in Thresholds
    /\ exclude_belowthreshold = TRUE
    /\ filter \in BOOLEAN
    /\ multiprocessing = FALSE
    /\ pc = "called"
    /\ err = "none"
    /\ sta_emgfile1 = NoTemplates
    /\ sta_emgfile2 = NoTemplates
    /\ sta_created = <<NoTemplates, NoTemplates>>
    /\ xcc = NoXcc
    /\ jobs = NoJobs
    /\ unordered = FALSE
    /\ res = <<>>
    /\ tracking_res = <<>>
    /\ which \in Whichs
    /\ mus_to_remove = <<<<>>, <<>>>>
    /\ heap = <<file(N1), file(N2)>>
    /\ work = <<0, 0>>
    /\ returned = <<0, 0>>
    /\ AlignIdle
    /\ StaIdle
    /\ GridIdle
    /\ CvIdle
    /\ ItIdle
    /\ gui \in BOOLEAN
    /\ GuiClosed

\* Lines 1848-1851: the call works on deepcopies of its two files.
DupEnter ==
    /\ pc = "called"
    /\ LET c1 == deepcopy(heap, 1)
           c2 == deepcopy(c1.heap, 2)
       IN /\ heap' = c2.heap
          /\ work' = <<c1.ref, c2.ref>>
    /\ pc' = "start"
    /\ UNCHANGED <<outside_dup, inputs, which, mus_to_remove, returned, err,
                   sta_emgfile1, sta_emgfile2, sta_created, xcc, jobs, unordered,
                   res, tracking_res>>

\* The ACCURACY columns of the two files: <<of file 1, of file 2>>, by MU.
Accuracies == {<<a1, a2>> : a1 \in [0..(N1 - 1) -> AccuracyLevels],
                            a2 \in [0..(N2 - 1) -> AccuracyLevels]}

\* Lines 1879-1883: tracking_res[tracking_res["Inclusion"] == "Included"]
\* with gui, the table itself without.
tracking_res_cleaned ==
    IF gui
    THEN LET idx == {k \in DOMAIN tracking_res : inclusion.flags[k] = "Included"}
         IN [pos \in 1..Cardinality(idx) |->
                tracking_res[CHOOSE k \in idx :
                                Cardinality({m \in idx : m < k}) = pos - 1]]
    ELSE tracking_res

\* Lines 1876-1935, after tracking() has returned its table.
RemoveDuplicates ==
    /\ pc = "returned"
    /\ IF gui /\ ~inclusion.present
       THEN /\ Raise("KeyError")
            /\ UNCHANGED <<mus_to_remove, heap, returned>>
       ELSE IF which = "munumber"
       THEN /\ mus_to_remove' =
                   IF N1 >= N2
                   THEN <<column_of(tracking_res_cleaned, "MU_file1"), <<>>>>
                   ELSE <<<<>>, column_of(tracking_res_cleaned, "MU_file2")>>
            /\ LET d == IF N1 >= N2
                        THEN delete_mus(heap, work[1], mus_to_remove'[1])
                        ELSE delete_mus(heap, work[2], mus_to_remove'[2])
               IN /\ heap' = d.heap
                  /\ returned' = IF N1 >= N2 THEN <<d.ref, work[2]>>
                                 ELSE <<work[1], d.ref>>
            /\ pc' = "removed"
            /\ err' = err
       ELSE IF which = "accuracy"
       THEN /\ \E acc \in Accuracies :
                   mus_to_remove' = by_accuracy(tracking_res_cleaned, acc)
            /\ LET d1 == delete_mus(heap, work[1], mus_to_remove'[1])
                   d2 == delete_mus(d1.heap, work[2], mus_to_remove'[2])
               IN /\ heap' = d2.heap
                  /\ returned' = <<d1.ref, d2.ref>>
            /\ pc' = "removed"
            /\ err' = err
       ELSE /\ Raise("ValueError")
            /\ UNCHANGED <<mus_to_remove, heap, returned>>
    /\ UNCHANGED <<outside_dup, inputs, which, work, sta_emgfile1, sta_emgfile2,
                   sta_created, xcc, jobs, unordered, res, tracking_res>>

NextDup ==
    \/ DupEnter
    \/ ObtainSTAs
    \/ ObtainCustomMuaps
    \/ SerialTask
    \/ ConvertRes
    \/ FilterRes
    \/ SortRes
    \/ Return
    \/ SelectPair
    \/ IncludeExclude
    \/ GetResults
    \/ RemoveDuplicates

SpecDup == InitDup /\ [][NextDup]_vars

\* C11: a ValueError for a wrong argument (derivation, which, custom_muaps)
\* leaves the call before any template was extracted and any pair compared.
C11_ConfigErrorsBeforeWork ==
    (pc = "error" /\ err = "ValueError") =>
        /\ DOMAIN sta_emgfile1 = {}
        /\ DOMAIN sta_emgfile2 = {}
        /\ DOMAIN xcc = {}
        /\ DOMAIN Buffers = {}

\* ------------------------------------------------------- align_by_xcorr
\* One call of align_by_xcorr on two templates of the same grid, with the time
\* axis: a template is the sample index and, per key, the channels of its
\* frame.  The lags at which the columns of the cross-correlation peak
\* (mathtools.norm_twod_xcorr) are the oracle idxmax.
MaxSamples == 8   \* samples of a template: 2..MaxSamples
MaxLagCols == 2   \* columns of the cross-correlation: 1..MaxLagCols

\* No call of tracking is under way.
TrackingIdle ==
    /\ emgfile1 = [NUMBER_OF_MUS |-> 0]
    /\ emgfile2 = [NUMBER_OF_MUS |-> 0]
    /\ matrix = [ncols |-> 1, emptych |-> FALSE]
    /\ derivation = "mono"
    /\ custom_muaps = [type |-> "NoneType", items |-> <<>>]
    /\ threshold = 2
    /\ exclude_belowthreshold = FALSE
    /\ filter = FALSE
    /\ multiprocessing = FALSE
    /\ pc = "idle"
    /\ err = "none"
    /\ sta_emgfile1 = NoTemplates
    /\ sta_emgfile2 = NoTemplates
    /\ sta_created = <<NoTemplates, NoTemplates>>
    /\ xcc = NoXcc
    /\ jobs = NoJobs
    /\ unordered = FALSE
    /\ res = <<>>
    /\ tracking_res = <<>>
    /\ gui = FALSE
    /\ GuiClosed

\* Rounding of the fraction num/den (den > 0) with halves going up.
round_half_up(num, den) == (2 * num + den) \div (2 * den)

\* Python's round() of the fraction num/den (den > 0): half to even.
round(num, den) ==
    LET q == num \div den
        r == num - q * den
    IN IF 2 * r < den THEN q
       ELSE IF 2 * r > den THEN q + 1
       ELSE IF q % 2 = 0 THEN q ELSE q + 1

abs(x) == IF x < 0 THEN -x ELSE x

\* scipy.signal.correlation_lags(n, n, mode="same")
correlation_lags(n) == [i \in 1..n |-> i - 1 - (n \div 2)]

\* The k-th smallest entry of the list s.
kth(s, k) ==
    CHOOSE v \in {s[i] : i \in DOMAIN s} :
        /\ Cardinality({i \in DOMAIN s : s[i] < v}) < k
        /\ Cardinality({i \in DOMAIN s : s[i] <= v}) >= k

\* Twice the median of the list s.
median_x2(s) == kth(s, (Len(s) + 1) \div 2) + kth(s, (Len(s) + 2) \div 2)

\* Line 714.
finalduration_samples(n, fd) == round(n * fd.num, fd.den)

\* Lines 715-716, in half samples: lag > fds / 2.
clamp(lag_x2, fds) == IF lag_x2 > fds THEN fds ELSE lag_x2

\* df.set_index(corr_lags).loc[start:stop, :], the bounds in half samples:
\* the positions of the rows whose label lies in start..stop.
loc(corr_lags, start_x2, stop_x2) ==
    LET keep == {i \in DOMAIN corr_lags :
                    2 * corr_lags[i] >= start_x2 /\ 2 * corr_lags[i] <= stop_x2}
        lo == IF keep = {} THEN 1 ELSE CHOOSE i \in keep : \A j \in keep : i <= j
    IN [k \in 1..Cardinality(keep) |-> lo + k - 1]

\* rows[a:b], a Python slice by position.
iloc(rows, a, b) ==
    LET n == Len(rows)
        norm(x) == IF x < 0 THEN (IF n + x < 0 THEN 0 ELSE n + x)
                   ELSE IF x > n THEN n ELSE x
    IN SubSeq(rows, norm(a) + 1, norm(b))

\* reset_index(drop=True)
reset_index(rows) == [k \in 1..Len(rows) |-> k - 1]

Fractions == {[num |-> 1, den |-> 4], [num |-> 1, den |-> 2],
              [num |-> 3, den |-> 4], [num |-> 1, den |-> 1]}

Grids == {[ncols |-> c, emptych |-> e] : c \in 1..MaxCols, e \in BOOLEAN}

\* The template of a MU of a derived grid, n samples long.
sta_of(grid, n) == [index |-> [k \in 1..n |-> k - 1], frames |-> grid]

InitAlign ==
    /\ TrackingIdle
    /\ DupIdle
    /\ StaIdle
    /\ GridIdle
    /\ CvIdle
    /\ ItIdle
    /\ \E m \in Grids, n \in 2..MaxSamples :
          \E grid \in {sort_rawemg(m), diff(sort_rawemg(m))} :
              /\ sta_mu1 = sta_of(grid, n)
              /\ sta_mu2 = sta_of(grid, n)
              /\ idxmax \in UNION {[1..k -> {correlation_lags(n)[i] : i \in 1..n}] :
                                      k \in 1..MaxLagCols}
    /\ finalduration \in Fractions
    /\ lag = 0
    /\ aligned_sta1 = NoSta
    /\ aligned_sta2 = NoSta
    /\ align_pc = "start"

\* Lines 692-746.
AlignByXcorr ==
    /\ align_pc = "start"
    /\ LET df1 == unpack_sta(sta_mu1.frames).df
           df2 == unpack_sta(sta_mu2.frames).df
           d_keys == Len(sta_mu2.frames)
           corr_lags == correlation_lags(Len(sta_mu1.index))
           fds == finalduration_samples(Len(sta_mu1.index), finalduration)
           lag_ == clamp(median_x2(idxmax), fds)
           dfmin == 2 * corr_lags[1]
           dfmax == 2 * corr_lags[Len(corr_lags)]
           start1 == IF lag_ > 0 THEN dfmin + abs(lag_) ELSE dfmin
           stop1 == IF lag_ > 0 THEN dfmax ELSE dfmax - abs(lag_)
           start2 == IF lag_ < 0 THEN dfmin + abs(lag_) ELSE dfmin
           stop2 == IF lag_ < 0 THEN dfmax ELSE dfmax - abs(lag_)
           df1cut == loc(corr_lags, start1, stop1)
           df2cut == loc(corr_lags, start2, stop2)
           tocutstart == round(Len(df1cut) - fds, 2)
           tocutend == Len(df1cut) - tocutstart
       IN /\ lag' = lag_
          /\ aligned_sta1' =
                 [index |-> reset_index(iloc(df1cut, tocutstart, tocutend)),
                  frames |-> pack_sta(df1, d_keys)]
          /\ aligned_sta2' =
                 [index |-> reset_index(iloc(df2cut, tocutstart, tocutend)),
                  frames |-> pack_sta(df2, d_keys)]
    /\ align_pc' = "done"
    /\ UNCHANGED <<outside_align, sta_mu1, sta_mu2,
                   finalduration, idxmax>>

NextAlign == AlignByXcorr

SpecAlign == InitAlign /\ [][NextAlign]_vars

Fds == finalduration_samples(Len(sta_mu1.index), finalduration)

\* C12: both templates align_by_xcorr returns are round(N * finalduration)
\* samples long, N the length of the input, whatever lag was selected.
C12_AlignedLength ==
    align_pc = "done" =>
        /\ Len(aligned_sta1.index) = Fds
        /\ Len(aligned_sta2.index) = Fds

\* C13: the lag used for the shift is at most finalduration_samples / 2 in
\* absolute value.
C13_LagBound == align_pc = "done" => abs(lag) <= Fds

\* C14: the two returned templates have the same zero-based sample index, and
\* each has the keys of the input with the same channels under each key, the
\* all-NaN channels in their place.
C14_AlignedShape ==
    align_pc = "done" =>
        /\ aligned_sta1.index = aligned_sta2.index
        /\ \A k \in DOMAIN aligned_sta1.index : aligned_sta1.index[k] = k - 1
        /\ aligned_sta1.frames = sta_mu1.frames
        /\ aligned_sta2.frames = sta_mu2.frames

C14_Witness ==
    /\ align_pc = "done"
    /\ lag \notin {0, Fds}
    /\ lag % 2 = 1
    /\ Len(aligned_sta1.index) >= 2
    /\ Len(aligned_sta1.frames) = 2
    /\ \E ch \in DOMAIN aligned_sta1.frames[1] : aligned_sta1.frames[1][ch].nan

\* ------------------------------------------------------------------ sta
\* One call of sta or of st_muap on a recording of emg_samples samples per
\* channel: the loop over the MUs, one template per MU.  A frame of a
\* template is its number of rows, its channels, the firings whose windows
\* it was built from, the keys of its trials (st_muap) and, per channel, what
\* its values are: the mean of the windows, the windows as trials, zeros or
\* NaN.
MaxRecording == 6   \* samples of the recording
MaxWindow == 5      \* timewindow in ms: 1..MaxWindow
MaxFirings == 2     \* firings of a MU: 0..MaxFirings

SamplingRates == {1000, 1300}

\* Lines 371 and 489: round((timewindow / 1000) * emgfile["FSAMP"])
timewindow_samples == round(timewindow * FSAMP, 1000)

halftime == round(timewindow_samples, 2)

tottime == halftime * 2

\* The firings S of a MU as the ascending array MUPULSES[mu].
ascending(S) ==
    CHOOSE f \in [1..Cardinality(S) -> S] :
        \A i, j \in 1..Cardinality(S) : i < j => f[i] < f[j]

\* A window that always has tottime samples.
len_ls_padded(pulse) == tottime

\* len(emg_array[pulse - halftime: pulse + halftime])
len_ls(pulse) ==
    Len(iloc([k \in 1..emg_samples |-> k], pulse - halftime, pulse + halftime))

\* Lines 394 and 503.
thismups(mu) ==
    IF sta_function = "sta" THEN iloc(MUPULSES[mu + 1], firings[1], firings[2])
    ELSE MUPULSES[mu + 1]

\* Lines 404-408 and 514-518: the positions in thismups of the firings whose
\* window is kept.
kept(mu) ==
    LET idx == {k \in DOMAIN thismups(mu) : len_ls(thismups(mu)[k]) = tottime}
    IN [pos \in 1..Cardinality(idx) |->
           (CHOOSE k \in idx : Cardinality({m \in idx : m < k}) = pos - 1) - 1]

\* Lines 402-416: the windows averaged for a channel of MU mu.
sta_values(mu) ==
    IF Len(thismups(mu)) > 0
    THEN [k \in DOMAIN kept(mu) |-> thismups(mu)[kept(mu)[k] + 1]]
    ELSE <<0>>

\* np.mean(sta_values, axis=0): an array of tottime values, or the scalar nan
\* of an empty list.
mean_is_scalar(mu) == Len(sta_values(mu)) = 0

\* pd.DataFrame(row_dict) raises ValueError when every value is a scalar.
DataFrameRaises(mu, channels) == Len(channels) > 0 /\ mean_is_scalar(mu)

\* The fill of a MU without firings that ignores the empty channel.
fill_zeros(channel) == "zeros"

\* Lines 409-415 and 519-525.
fill(channel) == IF channel.nan THEN "nan" ELSE "zeros"

\* The frame of one matrix column of MU mu in sta.
sta_frame(mu, channels) ==
    [rows |-> IF Len(channels) = 0 THEN 0 ELSE tottime,
     channels |-> channels,
     windows |-> IF Len(thismups(mu)) > 0 THEN sta_values(mu) ELSE <<>>,
     trials |-> <<>>,
     values |-> [k \in DOMAIN channels |->
                    IF Len(thismups(mu)) > 0 THEN "mean" ELSE fill(channels[k])]]

\* The frames of the channels of one matrix column of MU mu in st_muap: one
\* trial per kept window, under the position of its firing; a frame without
\* trials has no rows.
st_frame(mu, channels) ==
    LET trials == IF Len(thismups(mu)) > 0 THEN kept(mu) ELSE <<0>>
    IN [rows |-> IF Len(trials) = 0 THEN 0 ELSE tottime,
        channels |-> channels,
        windows |-> IF Len(thismups(mu)) > 0
                    THEN [k \in DOMAIN kept(mu) |-> thismups(mu)[kept(mu)[k] + 1]]
                    ELSE <<>>,
        trials |-> trials,
        values |-> [k \in DOMAIN channels |->
                       IF Len(thismups(mu)) > 0 THEN "trials" ELSE fill(channels[k])]]

sta_grid == sort_rawemg([ncols |-> MaxCols, emptych |-> TRUE])

InitSta ==
    /\ TrackingIdle
    /\ DupIdle
    /\ AlignIdle
    /\ GridIdle
    /\ CvIdle
    /\ ItIdle
    /\ emg_samples = MaxRecording
    /\ timewindow \in 1..MaxWindow
    /\ FSAMP \in SamplingRates
    /\ sta_function \in {"sta", "st_muap"}
    /\ MUPULSES \in UNION {[1..n -> {ascending(S) :
                              S \in {T \in SUBSET (0..(MaxRecording - 1)) :
                                        Cardinality(T) <= MaxFirings}}] :
                           n \in 1..2}
    /\ firings \in {<<0, MaxFirings>>, <<1, MaxFirings>>}
    /\ sta_function = "st_muap" => firings = <<0, MaxFirings>>
    /\ sta_warnings = <<>>
    /\ sta_dict = <<>>
    /\ sta_pc = "loop"

\* Lines 381-418 and 498-529: one turn of the loop over the MUs.
StaOfMU ==
    /\ sta_pc = "loop"
    /\ Len(sta_dict) < Len(MUPULSES)
    /\ LET mu == Len(sta_dict)
       IN /\ sta_warnings' = IF Len(MUPULSES[mu + 1]) = 0
                             THEN Append(sta_warnings, mu) ELSE sta_warnings
          /\ IF /\ sta_function = "sta"
                /\ \E c \in DOMAIN sta_grid : DataFrameRaises(mu, sta_grid[c])
             THEN /\ sta_pc' = "error"
                  /\ sta_dict' = sta_dict
             ELSE /\ sta_pc' = "loop"
                  /\ sta_dict' = Append(sta_dict,
                         [c \in DOMAIN sta_grid |->
                             IF sta_function = "sta"
                             THEN sta_frame(mu, sta_grid[c])
                             ELSE st_frame(mu, sta_grid[c])])
    /\ UNCHANGED <<outside_sta, MUPULSES, emg_samples, timewindow, FSAMP,
                   sta_function, firings>>

\* Lines 420 and 531.
StaReturn ==
    /\ sta_pc = "loop"
    /\ Len(sta_dict) = Len(MUPULSES)
    /\ sta_pc' = "returned"
    /\ UNCHANGED <<outside_sta, MUPULSES, emg_samples, timewindow, FSAMP,
                   sta_function, sta_warnings, firings, sta_dict>>

NextSta ==
    \/ StaOfMU
    \/ StaReturn

SpecSta == InitSta /\ [][NextSta]_vars

\* C15: sta ends without an error for every firing train, and every frame of
\* every template it builds has 2 * halftime rows.
C15_TemplateShape ==
    sta_function = "sta" =>
        /\ sta_pc # "error"
        /\ \A mu \in DOMAIN sta_dict : \A c \in DOMAIN sta_dict[mu] :
              sta_dict[mu][c].rows = tottime

\* ------------------------------------------------- diff and double_diff
\* One call of diff or of double_diff on a grid whose columns have 0..MaxRows
\* channels each, labelled from (c-1)*2*MaxRows on in steps of 1 (contiguous
\* labels) or 2.
labels(column) == [p \in DOMAIN column |-> column[p].lab]

grid_of(nrows, step, emptych) ==
    [c \in DOMAIN nrows |->
        [r \in 1..nrows[c] |->
            [lab |-> (c - 1) * 2 * MaxRows + step * (r - 1),
             nan |-> (emptych /\ c = 1 /\ r = 1),
             val |-> recorded(nrows[c], r)]]]

\* Rows subtracted from each row: row - 1 for diff, row - 1 and row - 2 for
\* double_diff.
back(d) == IF d = "sd" THEN 1 ELSE 2

\* .loc[:, row - j] raises KeyError when the column has no channel row - j.
LocRaises(grid, d) ==
    \E c \in DOMAIN grid : \E p \in DOMAIN grid[c] : \E j \in 1..back(d) :
        /\ p > back(d)
        /\ \A q \in DOMAIN grid[c] : grid[c][q].lab # grid[c][p].lab - j

InitGrid ==
    /\ TrackingIdle
    /\ DupIdle
    /\ AlignIdle
    /\ StaIdle
    /\ CvIdle
    /\ ItIdle
    /\ \E ncols \in 1..MaxCols :
          \E nrows \in [1..ncols -> 0..MaxRows], step \in 1..2, emptych \in BOOLEAN :
              rawemg = grid_of(nrows, step, emptych)
    /\ differential \in {"sd", "dd"}
    /\ derived = <<>>
    /\ grid_pc = "start"

\* Lines 101-117 and 191-209.
Differentiate ==
    /\ grid_pc = "start"
    /\ IF LocRaises(rawemg, differential)
       THEN /\ grid_pc' = "error"
            /\ derived' = derived
       ELSE /\ grid_pc' = "done"
            /\ derived' = IF differential = "sd" THEN diff(rawemg)
                          ELSE double_diff(rawemg)
    /\ UNCHANGED <<outside_grid, rawemg,
                   differential>>

NextGrid == Differentiate

SpecGrid == InitGrid /\ [][NextGrid]_vars

Contiguous(grid) ==
    \A c \in DOMAIN grid : \A p \in DOMAIN grid[c] :
        p > 1 => grid[c][p].lab = grid[c][p - 1].lab + 1

\* C16: on a grid with contiguous row labels diff and double_diff end without
\* an error, and every column of the result has the labels of the input
\* column without its first row (diff) or first two rows (double_diff): R - 1
\* or R - 2 rows, none when the input column has fewer rows than that.
C16_DerivativeRows ==
    Contiguous(rawemg) =>
        /\ grid_pc # "error"
        /\ grid_pc = "done" =>
              /\ DOMAIN derived = DOMAIN rawemg
              /\ \A c \in DOMAIN rawemg :
                    /\ labels(derived[c]) =
                          SubSeq(labels(rawemg[c]), back(differential) + 1,
                                 Len(rawemg[c]))
                    /\ Len(derived[c]) =
                          IF Len(rawemg[c]) < back(differential) THEN 0
                          ELSE Len(rawemg[c]) - back(differential)

C16_Witness ==
    /\ grid_pc = "done"
    /\ Contiguous(rawemg)
    /\ differential = "sd"
    /\ \E c, e \in DOMAIN rawemg :
          /\ Len(rawemg[c]) = MaxRows
          /\ Len(derived[c]) = MaxRows - 1
          /\ Len(rawemg[e]) < 2
          /\ Len(derived[e]) = 0

\* C17: the grid diff or double_diff hands back has the keys of the input in
\* their order (each column holds rows of the input column of its key), and
\* the input grid is the same after the call as before.
C17_KeysKeptInputUntouched ==
    /\ [](grid_pc = "done" =>
            /\ Len(derived) = Len(rawemg)
            /\ \A c \in DOMAIN derived : \A p \in DOMAIN derived[c] :
                  \E q \in DOMAIN rawemg[c] : rawemg[c][q].lab = derived[c][p].lab)
    /\ [][rawemg' = rawemg]_vars

C17_Witness ==
    /\ grid_pc = "done"
    /\ differential = "dd"
    /\ Len(derived) = MaxCols
    /\ \A c \in DOMAIN derived : Len(derived[c]) >= 1

\* --------------------------------------------------- estimate_cv_via_mle
\* One call of estimate_cv_via_mle, directly or from MUcv_gui.compute_cv.  The
\* signal is a frame of len(signal.padded) channels and signal.rows samples;
\* a channel with fewer samples than the frame is padded with NaN.  The MLE
\* search (find_mle_teta, mle_cv_est) is not part of the modelled files: the
\* velocity it hands back is the oracle mle_cv.
MaxChannels == 6  \* channels of the signal: 0..MaxChannels
MaxCv == 2        \* velocities handed back by the MLE: -MaxCv..MaxCv

nchannels == Len(signal.padded)

\* The samples of a signal: fewer than MaxChannels, or more.
SampleCounts == {2, MaxChannels + 2}

InitCv ==
    /\ TrackingIdle
    /\ DupIdle
    /\ AlignIdle
    /\ StaIdle
    /\ GridIdle
    /\ ItIdle
    /\ signal \in {[rows |-> r, padded |-> f] :
                      r \in SampleCounts,
                      f \in UNION {[1..n -> BOOLEAN] : n \in 0..MaxChannels}}
    /\ via_gui \in BOOLEAN
    /\ pair = <<>>
    /\ mle_cv = 0
    /\ cv = 0
    /\ cv_err = "none"
    /\ cv_pc = "start"

CvRaise(e) ==
    /\ cv_pc' = "error"
    /\ cv_err' = e

\* MUcv_gui.compute_cv, lines 2388-2401.
ComputeCv ==
    /\ cv_pc = "start"
    /\ via_gui
    /\ IF signal.rows < nchannels
       THEN CvRaise("ValueError")
       ELSE /\ cv_pc' = "estimate"
            /\ cv_err' = cv_err
    /\ UNCHANGED <<outside_cv,
                   signal, via_gui, pair, mle_cv, cv>>

\* Lines 2073-2078: the rows of sig for the coarse delay.
coarse_pair(n) == IF n > 3 THEN <<1, 2>> ELSE <<0, 1>>

\* sig[i, :] raises IndexError when sig has no row i.
IndexRaises(n) == \E k \in 1..2 : coarse_pair(n)[k] >= n

\* Lines 2065-2078.
PrepareSignals ==
    /\ \/ cv_pc = "start" /\ ~via_gui
       \/ cv_pc = "estimate"
    /\ IF IndexRaises(nchannels)
       THEN /\ CvRaise("IndexError")
            /\ pair' = pair
       ELSE /\ cv_pc' = "mle"
            /\ cv_err' = cv_err
            /\ pair' = coarse_pair(nchannels)
    /\ UNCHANGED <<outside_cv,
                   signal, via_gui, mle_cv, cv>>

\* Line 2094 without the sign removed.
returned_cv_signed(v) == v

\* Line 2094.
returned_cv(v) == abs(v)

\* Lines 2080-2096: the MLE search and the return.
MleSearch ==
    /\ cv_pc = "mle"
    /\ mle_cv' \in (-MaxCv)..MaxCv
    /\ cv' = returned_cv(mle_cv')
    /\ cv_pc' = "done"
    /\ UNCHANGED <<outside_cv,
                   signal, via_gui, pair, cv_err>>

NextCv ==
    \/ ComputeCv
    \/ PrepareSignals
    \/ MleSearch

SpecCv == InitCv /\ [][NextCv]_vars

\* C18: the value estimate_cv_via_mle returns is the absolute value of the
\* velocity of the MLE step, so it is never negative.
C18_CvNonNegative ==
    cv_pc = "done" =>
        /\ cv >= 0
        /\ cv \in {mle_cv, -mle_cv}

C18_Witness ==
    /\ cv_pc = "done"
    /\ mle_cv < 0
    /\ cv > 0
    /\ nchannels > 2

\* C19: with fewer than 2 channels, or with channels that differ in their
\* number of samples, the call ends in an error and the MLE search is never
\* entered.
C19_ValidatedBeforeMle ==
    (nchannels < 2 \/ \E ch \in DOMAIN signal.padded : signal.padded[ch]) =>
        cv_pc \in {"start", "estimate", "error"}

\* C20: the two channels handed to the coarse delay estimate are adjacent and
\* no adjacent pair of the signal lies closer to its centre.
C20_CentralPair ==
    cv_pc \in {"mle", "done"} =>
        /\ pair[2] = pair[1] + 1
        /\ \A i \in 0..(nchannels - 2) :
              abs(2 * pair[1] + 2 - nchannels) <= abs(2 * i + 2 - nchannels)

\* ----------------------------------------------- the Inclusion column
\* C21: with gui=True the table tracking returns has the Inclusion column,
\* also when it has no rows, so that remove_duplicates_between never fails
\* on selecting the included rows.
C21_InclusionPresent ==
    /\ (gui /\ pc \in {"returned", "removed"}) =>
          /\ inclusion.present
          /\ Len(inclusion.flags) = Len(tracking_res)
    /\ ~(pc = "error" /\ err = "KeyError")

\* ------------------------------------------------------- Tracking_gui
\* The review of a table in Tracking_gui: tracking has sorted its table and
\* returns with gui=True.
ReviewTables ==
    UNION {[1..n -> [MU_file1 : 0..(MaxMU - 1), MU_file2 : 0..(MaxMU - 1),
                     XCC : {MaxXcc}]] : n \in 0..MaxMU}

InitGui ==
    /\ emgfile1 = [NUMBER_OF_MUS |-> MaxMU]
    /\ emgfile2 = [NUMBER_OF_MUS |-> MaxMU]
    /\ matrix = [ncols |-> 1, emptych |-> FALSE]
    /\ derivation = "mono"
    /\ custom_muaps = [type |-> "NoneType", items |-> <<>>]
    /\ threshold = 2
    /\ exclude_belowthreshold = FALSE
    /\ filter = FALSE
    /\ multiprocessing = FALSE
    /\ pc = "sorted"
    /\ err = "none"
    /\ sta_emgfile1 = NoTemplates
    /\ sta_emgfile2 = NoTemplates
    /\ sta_created = <<NoTemplates, NoTemplates>>
    /\ xcc = NoXcc
    /\ jobs = NoJobs
    /\ unordered = FALSE
    /\ res = <<>>
    /\ tracking_res \in ReviewTables
    /\ gui = TRUE
    /\ GuiClosed
    /\ DupIdle
    /\ AlignIdle
    /\ StaIdle
    /\ GridIdle
    /\ CvIdle
    /\ ItIdle

NextGui ==
    \/ Return
    \/ SelectPair
    \/ IncludeExclude
    \/ GetResults

SpecGui == InitGui /\ [][NextGui]_vars

\* C26: in Tracking_gui a row is 'Excluded' exactly when include_exclude ran
\* an odd number of times while it was selected (so every row starts
\* 'Included' and a toggle changes the selected row only), the table handed
\* back has these flags, and MU_file1, MU_file2 and XCC of the rows never
\* change.
C26_ToggleParity ==
    /\ [](inclusion.present =>
            /\ DOMAIN inclusion.flags = DOMAIN tracking_res
            /\ \A k \in DOMAIN tracking_res :
                  inclusion.flags[k] = "Excluded" <=> toggled[k])
    /\ [][tracking_res' = tracking_res]_vars

C26_Witness ==
    /\ pc = "returned"
    /\ Len(tracking_res) >= 2
    /\ \E a, b \in DOMAIN tracking_res :
          /\ inclusion.flags[a] = "Excluded"
          /\ inclusion.flags[b] = "Included"

\* --------------------------------------- the files handed over and back
\* The MUs a field holds data of.
mus_in(field) == SelectSeq(field, LAMBDA mu : mu # NoMU)

\* C22: remove_duplicates_between works on copies of its own: the two objects
\* of the caller keep their content whatever the outcome, the objects the
\* call works on and hands back are not the caller's, and the files handed
\* back hold none of the MUs selected for removal.
C22_CallerFilesUntouched ==
    /\ heap[1] = file(N1)
    /\ heap[2] = file(N2)
    /\ pc # "called" => \A k \in 1..2 : work[k] \notin {1, 2}
    /\ pc = "removed" =>
          \A k \in 1..2 :
              /\ returned[k] \notin {1, 2}
              /\ \A mu \in elements(mus_to_remove[k]) :
                    mu \notin elements(heap[returned[k]].MUPULSES)

C22_Witness ==
    /\ pc = "removed"
    /\ Len(mus_to_remove[1]) >= 1
    /\ Len(mus_to_remove[2]) >= 1
    /\ heap[returned[1]].NUMBER_OF_MUS >= 1
    /\ heap[returned[1]] # heap[1]
    /\ heap[returned[2]] # heap[2]

\* C28: a file delete_mus hands back is consistent: NUMBER_OF_MUS is the
\* number of the MUs of the file not named in the list, and these MUs, in
\* their order, are the MUs of MUPULSES, of the IPTS columns, of the
\* BINARY_MUS_FIRING columns and of the ACCURACY rows.
C28_DeletedFileConsistent ==
    pc = "removed" =>
        \A k \in 1..2 :
            LET del_emgfile == heap[returned[k]]
                retained == drop(file(heap[k].NUMBER_OF_MUS).ACCURACY,
                                 mus_to_remove[k])
            IN /\ del_emgfile.NUMBER_OF_MUS = Len(retained)
               /\ mus_in(del_emgfile.MUPULSES) = retained
               /\ mus_in(del_emgfile.IPTS) = retained
               /\ mus_in(del_emgfile.BINARY_MUS_FIRING) = retained
               /\ del_emgfile.ACCURACY = retained

\* ------------------------------------------------- windows at the edges
\* The firings of MU mu that the call looks at, in order.
considered(mu) ==
    IF sta_function = "sta"
    THEN SubSeq(MUPULSES[mu + 1], firings[1] + 1,
                IF firings[2] < Len(MUPULSES[mu + 1]) THEN firings[2]
                ELSE Len(MUPULSES[mu + 1]))
    ELSE MUPULSES[mu + 1]

InsideRecording(p) == halftime <= p /\ p <= emg_samples - halftime

\* C23: in every template that sta or st_muap builds, the windows used are
\* exactly those of the firings p with halftime <= p <= emg_samples -
\* halftime, in order: a firing nearer to an edge, a start before sample 0
\* included, is left out.  sta averages these windows and st_muap keeps one
\* trial per such firing.
C23_EdgeFiringsDiscarded ==
    \A mu \in DOMAIN sta_dict : \A c \in DOMAIN sta_dict[mu] :
        LET frame == sta_dict[mu][c]
            inside == SelectSeq(considered(mu - 1), InsideRecording)
        IN /\ frame.windows = inside
           /\ Len(considered(mu - 1)) > 0 =>
                 /\ \A k \in DOMAIN frame.values :
                       frame.values[k] =
                           IF sta_function = "sta" THEN "mean" ELSE "trials"
                 /\ sta_function = "st_muap" =>
                       Len(frame.trials) = Len(inside)

\* A template was built from a window inside the recording while a firing
\* whose window starts before sample 0 was left out.
C23_Witness ==
    \E mu \in DOMAIN sta_dict :
        /\ Len(sta_dict[mu][1].windows) > 0
        /\ \E k \in DOMAIN considered(mu - 1) :
              considered(mu - 1)[k] < halftime
        /\ halftime > 0

\* The same for st_muap, with a firing whose window ends after the last
\* sample.
C23_WitnessTrials ==
    \E mu \in DOMAIN sta_dict :
        /\ sta_function = "st_muap"
        /\ Len(sta_dict[mu][1].trials) = 1
        /\ \E k \in DOMAIN considered(mu - 1) :
              considered(mu - 1)[k] > emg_samples - halftime

\* ------------------------------------------------------ MUs without firings
\* C24: a MU without firings is warned about and gets a template all the
\* same: every channel of every frame is tottime zeros, the empty channel
\* NaN.  No call ends in an error at such a MU, no other MU is warned about,
\* and the templates of the MUs after it are built from their own windows.
C24_EmptyMU ==
    /\ \A mu \in DOMAIN sta_dict :
          Len(MUPULSES[mu]) = 0 =>
              /\ \E w \in DOMAIN sta_warnings : sta_warnings[w] = mu - 1
              /\ \A c \in DOMAIN sta_dict[mu] :
                    /\ sta_dict[mu][c].rows = tottime
                    /\ sta_dict[mu][c].windows = <<>>
                    /\ \A k \in DOMAIN sta_dict[mu][c].channels :
                          sta_dict[mu][c].values[k] =
                              IF sta_dict[mu][c].channels[k].nan
                              THEN "nan" ELSE "zeros"
    /\ \A w \in DOMAIN sta_warnings : Len(MUPULSES[sta_warnings[w] + 1]) = 0
    /\ sta_pc = "error" => Len(MUPULSES[Len(sta_dict) + 1]) > 0

\* The call returned the template of a MU without firings, the grid having
\* an empty channel, and after it the template of a MU with a window.
C24_Witness ==
    /\ sta_pc = "returned"
    /\ \E mu \in DOMAIN sta_dict :
          /\ Len(MUPULSES[mu]) = 0
          /\ sta_dict[mu][1].values[1] = "nan"
          /\ sta_dict[mu][1].values[2] = "zeros"
          /\ tottime > 0
          /\ mu + 1 \in DOMAIN sta_dict
          /\ Len(sta_dict[mu + 1][1].windows) > 0

\* --------------------------------------------------- the window in samples
\* n is the integer nearest to num/den, the even one of the two when num/den
\* lies halfway between two integers.
IsNearestEven(n, num, den) ==
    /\ abs(2 * n * den - 2 * num) <= den
    /\ abs(2 * n * den - 2 * num) = den => n % 2 = 0

\* C25 as stated: halftime is timewindow / 1000 * FSAMP / 2 rounded once, and
\* tottime is twice halftime.
C25_WindowRoundedOnce ==
    /\ IsNearestEven(halftime, timewindow * FSAMP, 2000)
    /\ tottime = 2 * halftime

\* C25, amended: the window is rounded to whole samples first and its half is
\* rounded again, both times to the nearest integer with halves going to the
\* even one; tottime is twice halftime, and it is the number of rows of every
\* frame that holds a window.
C25_WindowRoundedTwice ==
    /\ \E samples \in 0..(MaxWindow * 2) :
          /\ IsNearestEven(samples, timewindow * FSAMP, 1000)
          /\ IsNearestEven(halftime, samples, 2)
    /\ tottime = 2 * halftime
    /\ \A mu \in DOMAIN sta_dict : \A c \in DOMAIN sta_dict[mu] :
          Len(sta_dict[mu][c].windows) > 0 => sta_dict[mu][c].rows = tottime

\* A template with a window was returned for a timewindow that is not a whole
\* number of samples and for which rounding once gives another halftime.
C25_Witness ==
    /\ sta_pc = "returned"
    /\ (timewindow * FSAMP) % 1000 # 0
    /\ ~IsNearestEven(halftime, timewindow * FSAMP, 2000)
    /\ \E mu \in DOMAIN sta_dict :
          /\ Len(sta_dict[mu][1].windows) > 0
          /\ sta_dict[mu][1].rows = tottime
          /\ tottime > 0

\* ------------------------------------------------ EMGFileSectionsIterator
\* An iterator on a decomposed file of file_length samples (rows 0 ..
\* file_length - 1 of RAW_SIGNAL, REF_SIGNAL, IPTS and BINARY_MUS_FIRING).  A
\* result is the section the function was applied to.
MaxLength == 3    \* samples of the file
MaxResults == 2   \* results kept apart: the list may grow to MaxResults

outside_it == <<tracking_vars, dup_vars, align_vars, sta_vars, grid_vars,
                cv_vars, gui_vars>>

file_length == it_file.EMG_LENGTH

\* A decomposed file of MaxLength samples with the firing trains given.
emgfile_of(trains, ipts) ==
    [EMG_LENGTH |-> MaxLength,
     NUMBER_OF_MUS |-> Len(trains),
     MUPULSES |-> trains,
     BINARY_MUS_FIRING |->
         [mu \in DOMAIN trains |-> {trains[mu][k] : k \in DOMAIN trains[mu]}],
     IPTS |-> ipts]

\* The files: one MU firing at every sample, with IPTS and without; two MUs,
\* one firing at the first and the last sample or at every sample, the other
\* without firings.
Files ==
    LET every == ascending(0..(MaxLength - 1))
        ends == ascending({0, MaxLength - 1})
    IN {emgfile_of(<<every>>, "full"), emgfile_of(<<every>>, "empty"),
        emgfile_of(<<ends, <<>>>>, "full"), emgfile_of(<<<<>>, every>>, "full")}

\* The lists handed to set_split_points_by_list: the increasing lists that
\* run from 0 to file_length, a list that starts after 0 and one that ends
\* before file_length.  The list is empty until the first call.
SplitLists ==
    {ascending(S \cup {0, MaxLength}) : S \in SUBSET (1..(MaxLength - 1))}
    \cup {<<0, 1>>, <<1, MaxLength>>}

InitIt ==
    /\ TrackingIdle
    /\ DupIdle
    /\ AlignIdle
    /\ StaIdle
    /\ GridIdle
    /\ CvIdle
    /\ it_file \in Files
    /\ split_points = <<>>
    /\ sections = <<>>
    /\ results = <<>>
    /\ it_pc = "constructed"

\* set_split_points_by_list, line 783.
SetSplitPoints ==
    /\ it_pc # "idle"
    /\ split_points' \in SplitLists
    /\ it_pc' = "set"
    /\ UNCHANGED <<outside_it, it_file, sections, results>>

\* The mask of the firings of a section that takes the end in.
mask_inclusive(mupulses, start_, end_) ==
    SelectSeq(mupulses, LAMBDA pulse : pulse >= start_ /\ pulse <= end_)

\* Lines 346-349: the firings with start_ <= pulse < end_.
mask(mupulses, start_, end_) ==
    SelectSeq(mupulses, LAMBDA pulse : pulse >= start_ /\ pulse < end_)

\* frame.loc[start_:end_]: the rows whose label lies in start_ .. end_, the
\* end included.
loc_labels(length, start_, end_) ==
    {k \in 0..(length - 1) : start_ <= k /\ k <= end_}

\* Lines 298-356: the file resized to area = [start_, end_].
resize_emgfile(emgfile, start_, end_) ==
    LET end_in == IF end_ > emgfile.EMG_LENGTH THEN emgfile.EMG_LENGTH ELSE end_
        rows == loc_labels(emgfile.EMG_LENGTH, start_, end_in)
        first_idx == CHOOSE k \in rows : \A m \in rows : k <= m
    IN [EMG_LENGTH |-> Cardinality(rows),
        NUMBER_OF_MUS |-> emgfile.NUMBER_OF_MUS,
        MUPULSES |->
            [mu \in DOMAIN emgfile.MUPULSES |->
                LET kept_pulses == mask(emgfile.MUPULSES[mu], start_, end_in)
                IN [k \in DOMAIN kept_pulses |-> kept_pulses[k] - first_idx]],
        BINARY_MUS_FIRING |->
            [mu \in DOMAIN emgfile.BINARY_MUS_FIRING |->
                {k - first_idx : k \in emgfile.BINARY_MUS_FIRING[mu] \cap rows}],
        IPTS |-> IF rows = {} THEN "empty" ELSE emgfile.IPTS]

\* Lines 358-383: what resize_emgfile raises a ValueError for.
ResizeRaises(emgfile, accuracy) ==
    \/ accuracy = "recalculate" /\ emgfile.NUMBER_OF_MUS > 0 /\ emgfile.IPTS = "empty"
    \/ accuracy \notin {"recalculate", "maintain"}

\* split, lines 824-831.
Split ==
    /\ it_pc # "idle"
    /\ \E accuracy \in {"recalculate", "maintain", "other"} :
          IF Len(split_points) >= 2 /\ ResizeRaises(it_file, accuracy)
          THEN /\ sections' = <<>>
               /\ it_pc' = "error"
          ELSE /\ sections' =
                      [i \in 1..(IF Len(split_points) = 0 THEN 0
                                 ELSE Len(split_points) - 1) |->
                          resize_emgfile(it_file, split_points[i],
                                         split_points[i + 1])]
               /\ it_pc' = "split"
    /\ UNCHANGED <<outside_it, it_file, split_points, results>>

\* A list of n items, all good but the one at position at (none for at = 0).
list_of(good, bad, n, at) ==
    [type |-> "list", items |-> [k \in 1..n |-> IF k = at THEN bad ELSE good]]

\* The calls of iterate: funcs of up to MaxLength functions; args_list and
\* kwargs_list as long as funcs, or the defaults [[]] and [{}], or empty.
\* One argument at most departs from the good list: funcs or args_list is a
\* tuple, the first item of args_list or of kwargs_list is no list or no
\* dict, or the last item of kwargs_list is no dict.
IterateCalls ==
    UNION {UNION {
        LET funcs == list_of("f", "f", n, 0)
            good_args == list_of("list", "int", m, 0)
            good_kwargs == list_of("dict", "int", m, 0)
        IN {<<funcs, good_args, good_kwargs>>,
            <<[funcs EXCEPT !.type = "tuple"], good_args, good_kwargs>>,
            <<funcs, [good_args EXCEPT !.type = "tuple"], good_kwargs>>,
            <<funcs, list_of("list", "int", m, 1), good_kwargs>>,
            <<funcs, good_args, list_of("dict", "int", m, 1)>>,
            <<funcs, good_args, list_of("dict", "int", m, m)>>}
        : m \in {0, 1, n}} : n \in 0..MaxLength}

\* Lines 912-977: the input checking of iterate.
IterateRejects(funcs, args_list, kwargs_list) ==
    \/ funcs.type # "list"
    \/ args_list.type # "list"
    \/ kwargs_list.type # "list"
    \/ /\ Len(funcs.items) > 1
       /\ \/ Len(funcs.items) # Len(sections)
          \/ /\ Len(args_list.items) > 0
             /\ \/ args_list.items[1] # "list"
                \/ Len(args_list.items) # Len(sections)
          \/ /\ Len(kwargs_list.items) > 0
             /\ \/ kwargs_list.items[1] # "dict"
                \/ Len(kwargs_list.items) # Len(sections)
    \/ /\ Len(funcs.items) = 1
       /\ \/ Len(args_list.items) = 1 /\ args_list.items[1] # "list"
          \/ Len(args_list.items) > 1
          \/ Len(kwargs_list.items) = 1 /\ kwargs_list.items[1] # "dict"
          \/ Len(kwargs_list.items) > 1
    \/ Len(funcs.items) = 0

\* Lines 980-983: the lists after a single function was propagated; an empty
\* args_list or kwargs_list has no item 0 to propagate.
PropagateRaises(funcs, args_list, kwargs_list) ==
    /\ Len(funcs.items) = 1
    /\ Len(sections) > 1
    /\ Len(args_list.items) = 0 \/ Len(kwargs_list.items) = 0

propagated(list) ==
    IF Len(sections) > 1 /\ Len(list) = 1 THEN [k \in DOMAIN sections |-> list[1]]
    ELSE list

\* Lines 986-992: the number of sections done before the loop raises
\* (IndexError for a missing item, TypeError for keyword arguments that are
\* not a dict); Len(sections) when it does not.
done_before_raise(funcs, args_list, kwargs_list) ==
    LET a == IF Len(funcs.items) = 1 THEN propagated(args_list.items)
             ELSE args_list.items
        k == IF Len(funcs.items) = 1 THEN propagated(kwargs_list.items)
             ELSE kwargs_list.items
        bad == {i \in DOMAIN sections :
                   \/ i > Len(a)
                   \/ i > Len(k)
                   \/ k[i] # "dict"
                   \/ a[i] # "list"}
    IN IF bad = {} THEN Len(sections)
       ELSE (CHOOSE i \in bad : \A j \in bad : i <= j) - 1

\* Line 992: self.results.append(result) for the sections done.
collect(done) == results \o [i \in 1..done |-> sections[i]]

\* iterate, lines 912-992.
Iterate ==
    /\ it_pc # "idle"
    /\ \E call \in IterateCalls :
       LET funcs == call[1]
           args_list == call[2]
           kwargs_list == call[3]
       IN IF IterateRejects(funcs, args_list, kwargs_list)
          THEN /\ it_pc' = "rejected"
               /\ results' = results
          ELSE IF PropagateRaises(funcs, args_list, kwargs_list)
          THEN /\ it_pc' = "error"
               /\ results' = results
          ELSE LET done == done_before_raise(funcs, args_list, kwargs_list)
               IN /\ Len(results) + done <= MaxResults
                  /\ results' = collect(done)
                  /\ it_pc' = IF done = Len(sections) THEN "iterated" ELSE "error"
    /\ UNCHANGED <<outside_it, it_file, split_points, sections>>

NextIt ==
    \/ SetSplitPoints
    \/ Split
    \/ Iterate

SpecIt == InitIt /\ [][NextIt]_vars

\* ------------------------------------------------- sections and firings
\* The split points run from 0 to file_length and increase.
FromStartToEnd ==
    /\ Len(split_points) >= 2
    /\ split_points[1] = 0
    /\ split_points[Len(split_points)] = file_length
    /\ \A i \in 1..(Len(split_points) - 1) : split_points[i] < split_points[i + 1]

\* The sections in which the firing at sample `pulse` of MU mu is found,
\* shifted by the start of the section.
sections_with(mu, pulse) ==
    {i \in DOMAIN sections :
        \E k \in DOMAIN sections[i].MUPULSES[mu] :
            sections[i].MUPULSES[mu][k] = pulse - split_points[i]}

C30_OneResultPerSection ==
    /\ [](it_pc = "iterated" =>
             /\ Len(results) = Len(sections)
             /\ \A i \in DOMAIN results : results[i] = sections[i])
    /\ [][it_pc' = "rejected" => results' = results]_vars

\* -------------------------------------------- double_diff and diff twice
negated(grid) ==
    [c \in DOMAIN grid |->
        [p \in DOMAIN grid[c] |->
            [grid[c][p] EXCEPT !.val = [q \in DOMAIN @ |-> 0 - @[q]]]]]

\* C27: on a grid with contiguous row labels diff can be applied twice, and
\* what double_diff hands back is that grid with every signal negated: the
\* same keys, the same row labels in every column, and every row of
\* double_diff the negative of the row of diff(diff(grid)) with its label.
C27_DoubleDiffIsMinusDiffTwice ==
    (grid_pc = "done" /\ differential = "dd" /\ Contiguous(rawemg)) =>
        /\ ~LocRaises(rawemg, "sd")
        /\ ~LocRaises(diff(rawemg), "sd")
        /\ derived = negated(diff(diff(rawemg)))

\* double_diff was applied to a grid with a column of MaxRows channels and a
\* column too short to have a second difference.
C27_Witness ==
    /\ grid_pc = "done"
    /\ differential = "dd"
    /\ Contiguous(rawemg)
    /\ \E c, e \in DOMAIN rawemg :
          /\ Len(rawemg[c]) = MaxRows
          /\ Len(derived[c]) = MaxRows - 2
          /\ derived[c][1].val[2] = 2
          /\ Len(rawemg[e]) < 3
          /\ Len(derived[e]) = 0
====
